---------------------------- MODULE Spec2Model ----------------------------
(***************************************************************************)
(* A model of the Messenger webhook relay of src/app.py: the messages      *)
(* table, the payload helpers (extract_message_events, get_user_text,      *)
(* build_prompt, generate_bot_reply), and the POST /webhook handler run by *)
(* parallel handler instances.                                             *)
(*                                                                         *)
(* JSON values (what request.get_json returns) are tagged records:         *)
(*   [type |-> "null"], [type |-> "str", s |-> ...],                       *)
(*   [type |-> "int", n |-> ...], [type |-> "list", elems |-> <<...>>],    *)
(*   [type |-> "dict", items |-> [key |-> value, ...]].                    *)
(* Python strings are TLA+ strings; the Vietnamese literals of the source  *)
(* are written without their diacritics.                                   *)
(***************************************************************************)
EXTENDS Integers, Sequences, FiniteSets, TLC

VARIABLES
    model,          \* app.py:21-26  "None" or "configured"
    FB_PAGE_TOKEN,  \* app.py:16
    VERIFY_TOKEN,   \* app.py:17
    messages,       \* app.py:35-41  the rows of table messages, in id order
    sqlite_sequence,\* app.py:36     the AUTOINCREMENT counter of the table
    pc,             \* per handler instance: where webhook() stands
    data,           \* app.py:187
    events,         \* app.py:194    the list the for loop iterates
    idx,            \* app.py:194    position of the for loop in events
    sender_id,      \* app.py:195
    user_text,      \* app.py:201
    history,        \* app.py:218
    prompt,         \* app.py:220
    generated,      \* app.py:170   what the generation call in flight gave
    bot_reply,      \* app.py:221
    response,       \* app.py:192,230 what the request was answered with
    steps,          \* per handler: the calls made for the event being handled
    outcomes,       \* per handler: how each event of the request ended
    served,         \* number of POST requests received so far
    call            \* a single call of a helper function: argument and result

vars == <<model, FB_PAGE_TOKEN, VERIFY_TOKEN, messages, sqlite_sequence, pc, data, events,
          idx, sender_id, user_text, history, prompt, generated, bot_reply,
          response, steps, outcomes, served, call>>

-----------------------------------------------------------------------------
(* JSON values and the Python operations the handler applies to them *)

JNull == [type |-> "null"]
JStr(s) == [type |-> "str", s |-> s]
JInt(n) == [type |-> "int", n |-> n]
JList(es) == [type |-> "list", elems |-> es]
JDict(d) == [type |-> "dict", items |-> d]
EmptyDict == JDict(<<>>)

\* A key that a payload builder leaves out of the object it builds.
Absent == [type |-> "absent"]

\* The outcome of an expression that raises (AttributeError, TypeError,
\* sqlite3.Error); the exception is not caught anywhere in webhook().
Raised == [type |-> "exception"]

IsDict(v) == v.type = "dict"
IsStr(v) == v.type = "str"
IsList(v) == v.type = "list"

\* bool(v)
Truthy(v) ==
    CASE v.type = "null" -> FALSE
      [] v.type = "str" -> v.s # ""
      [] v.type = "int" -> v.n # 0
      [] v.type = "list" -> v.elems # <<>>
      [] v.type = "dict" -> DOMAIN v.items # {}
      [] OTHER -> FALSE

\* d.get(k, default) for a dict d
GetOr(d, k, default) == IF k \in DOMAIN d.items THEN d.items[k] ELSE default

\* d.get(k) for a dict d
Get(d, k) == GetOr(d, k, JNull)

\* v == "literal"
EqStr(v, lit) == IsStr(v) /\ v.s = lit

RECURSIVE SetToSeq(_)
SetToSeq(S) ==
    IF S = {} THEN <<>>
    ELSE LET x == CHOOSE y \in S : TRUE IN <<x>> \o SetToSeq(S \ {x})

RECURSIVE Chars(_)
Chars(s) == IF s = "" THEN <<>> ELSE <<JStr(SubSeq(s, 1, 1))>> \o Chars(SubSeq(s, 2, Len(s)))

Visited(es) == [type |-> "iter", elems |-> es]

\* "for x in v": the elements visited, or Raised when v is not iterable.
\* A list yields its elements, a str its characters, a dict its keys.
Iterate(v) ==
    CASE v.type = "list" -> Visited(v.elems)
      [] v.type = "str" -> Visited(Chars(v.s))
      [] v.type = "dict" -> Visited([i \in 1..Cardinality(DOMAIN v.items) |->
                                       JStr(SetToSeq(DOMAIN v.items)[i])])
      [] OTHER -> Raised

-----------------------------------------------------------------------------
(* Python string operations *)

Whitespace == {" ", "\n", "\t", "\r"}

RECURSIVE lstrip(_)
lstrip(s) ==
    IF s # "" /\ SubSeq(s, 1, 1) \in Whitespace
    THEN lstrip(SubSeq(s, 2, Len(s)))
    ELSE s

RECURSIVE rstrip(_)
rstrip(s) ==
    IF s # "" /\ SubSeq(s, Len(s), Len(s)) \in Whitespace
    THEN rstrip(SubSeq(s, 1, Len(s) - 1))
    ELSE s

\* str.strip()
strip(s) == rstrip(lstrip(s))

\* sep.join(names) for a list of str
RECURSIVE join(_, _)
join(sep, names) ==
    IF names = <<>> THEN ""
    ELSE IF Len(names) = 1 THEN names[1]
    ELSE names[1] \o sep \o join(sep, Tail(names))

-----------------------------------------------------------------------------
(* The helper functions of app.py *)

Returned(v) == [type |-> "return", value |-> v]

\* entry_loop appending the events of an entry after those of the later entries
RECURSIVE entry_loop_later_first(_)
entry_loop_later_first(entries) ==
    IF entries = <<>> THEN Returned(<<>>)
    ELSE LET entry == Head(entries) IN
         IF ~IsDict(entry) THEN Raised
         ELSE LET messaging == Iterate(GetOr(entry, "messaging", JList(<<>>))) IN
              IF messaging = Raised THEN Raised
              ELSE LET rest == entry_loop_later_first(Tail(entries)) IN
                   IF rest = Raised THEN Raised
                   ELSE Returned(rest.value \o messaging.elems)

\* app.py:123-125, the two nested for loops over entry and messaging
RECURSIVE entry_loop(_)
entry_loop(entries) ==
    IF entries = <<>> THEN Returned(<<>>)
    ELSE LET entry == Head(entries) IN
         IF ~IsDict(entry) THEN Raised
         ELSE LET messaging == Iterate(GetOr(entry, "messaging", JList(<<>>))) IN
              IF messaging = Raised THEN Raised
              ELSE LET rest == entry_loop(Tail(entries)) IN
                   IF rest = Raised THEN Raised
                   ELSE Returned(messaging.elems \o rest.value)

\* app.py:109-129
extract_message_events(d) ==
    IF ~IsDict(d) THEN Returned(<<>>)
    ELSE LET top == IF EqStr(Get(d, "field"), "messages") /\ IsDict(Get(d, "value"))
                    THEN <<d.items["value"]>> ELSE <<>>
             sample == Get(d, "sample")
             smp == IF /\ IsDict(sample)
                       /\ EqStr(Get(sample, "field"), "messages")
                       /\ IsDict(Get(sample, "value"))
                    THEN <<sample.items["value"]>> ELSE <<>>
             entries == Iterate(GetOr(d, "entry", JList(<<>>)))
         IN IF entries = Raised THEN Raised
            ELSE LET batch == entry_loop(entries.elems) IN
                 IF batch = Raised THEN Raised
                 ELSE Returned(top \o smp \o batch.value)

\* app.py:136-140, the list comprehension
RECURSIVE named_commands(_)
named_commands(commands) ==
    IF commands = <<>> THEN <<>>
    ELSE LET command == Head(commands) IN
         (IF IsDict(command) /\ Truthy(Get(command, "name"))
          THEN <<Get(command, "name")>> ELSE <<>>)
         \o named_commands(Tail(commands))

\* get_user_text without the strip() of app.py:133
get_user_text_unstripped(message) ==
    IF ~IsDict(message) THEN Raised
    ELSE LET raw == IF Truthy(Get(message, "text")) THEN Get(message, "text") ELSE JStr("")
         IN IF ~IsStr(raw) THEN Raised
            ELSE LET text == raw.s
                     commands == Iterate(IF Truthy(Get(message, "commands"))
                                         THEN Get(message, "commands") ELSE JList(<<>>))
                 IN IF commands = Raised THEN Raised
                    ELSE LET command_names == named_commands(commands.elems)
                             names == [i \in 1..Len(command_names) |-> command_names[i].s]
                         IN IF command_names = <<>> THEN Returned(<<text, <<>>>>)
                            ELSE IF \E i \in 1..Len(command_names) : ~IsStr(command_names[i])
                                 THEN Raised
                            ELSE IF text # ""
                                 THEN Returned(<<text \o "\nCommands: " \o join(", ", names), names>>)
                                 ELSE Returned(<<"Commands: " \o join(", ", names), names>>)

\* app.py:132-147; the value returned is the pair (text, command_names)
get_user_text(message) ==
    IF ~IsDict(message) THEN Raised
    ELSE LET raw == IF Truthy(Get(message, "text")) THEN Get(message, "text") ELSE JStr("")
         IN IF ~IsStr(raw) THEN Raised
            ELSE LET text == strip(raw.s)
                     commands == Iterate(IF Truthy(Get(message, "commands"))
                                         THEN Get(message, "commands") ELSE JList(<<>>))
                 IN IF commands = Raised THEN Raised
                    ELSE LET command_names == named_commands(commands.elems)
                             names == [i \in 1..Len(command_names) |-> command_names[i].s]
                         IN IF command_names = <<>> THEN Returned(<<text, <<>>>>)
                            ELSE IF \E i \in 1..Len(command_names) : ~IsStr(command_names[i])
                                 THEN Raised
                            ELSE IF text # ""
                                 THEN Returned(<<text \o "\nCommands: " \o join(", ", names), names>>)
                                 ELSE Returned(<<"Commands: " \o join(", ", names), names>>)

\* app.py:150-160
build_prompt(h, text) ==
    "\nBan la chatbot ban hang.\nDay la lich su 5 tin nhan gan nhat:\n" \o h
    \o "\n\nDay la tin nhan moi nhat cua khach:\n" \o text
    \o "\n\nTra loi khach chuyen nghiep, ngan gon.\n"

\* app.py:164
fallback == "Xin loi, toi chua the phan hoi ngay luc nay."

\* What model.generate_content(prompt) and response.text can do: raise, or give
\* a text (None included).
ApiText(t) == [type |-> "response", text |-> t]

\* generate_bot_reply returning the stripped text without "or fallback"
generate_bot_reply_no_fallback(p, api) ==
    IF model = "None" THEN fallback
    ELSE IF api = Raised THEN fallback
    ELSE strip(IF Truthy(api.text) THEN api.text.s ELSE "")

\* app.py:163-175; api is the outcome of the generation call when it is made
generate_bot_reply(p, api) ==
    IF model = "None" THEN fallback
    ELSE IF api = Raised THEN fallback
    ELSE LET text == strip(IF Truthy(api.text) THEN api.text.s ELSE "") IN
         IF text # "" THEN text ELSE fallback

-----------------------------------------------------------------------------
(* The messages table and the outbound send *)

\* app.py:67
HistoryLimit == 5

\* save_message binding role and content in each other's place
save_message_swapped(table, seq, user_id, role, content) ==
    Append(table, [id |-> seq + 1, user_id |-> user_id, role |-> content, content |-> role])

\* save_message writing the turn over the stored turn of the same user and
\* role when there is one (an UPDATE in place of the INSERT)
save_message_upsert(table, seq, user_id, role, content) ==
    IF \E i \in 1..Len(table) : table[i].user_id = user_id /\ table[i].role = role
    THEN [i \in 1..Len(table) |->
             IF table[i].user_id = user_id /\ table[i].role = role
             THEN [table[i] EXCEPT !.content = content] ELSE table[i]]
    ELSE Append(table, [id |-> seq + 1, user_id |-> user_id, role |-> role, content |-> content])

\* app.py:49-57: the table after the INSERT has committed. The timestamp
\* column is left out: no statement of app.py reads it.
save_message(table, seq, user_id, role, content) ==
    Append(table, [id |-> seq + 1, user_id |-> user_id, role |-> role, content |-> content])

RECURSIVE OrderByIdDesc(_)
OrderByIdDesc(rows) ==
    IF rows = {} THEN <<>>
    ELSE LET top == CHOOSE r \in rows : \A q \in rows : q.id <= r.id
         IN <<top>> \o OrderByIdDesc(rows \ {top})

Limit(rows, n) == SubSeq(rows, 1, IF Len(rows) < n THEN Len(rows) ELSE n)

Reverse(rows) == [i \in 1..Len(rows) |-> rows[Len(rows) + 1 - i]]

\* app.py:75-77
RECURSIVE format_history(_)
format_history(rows) ==
    IF rows = <<>> THEN ""
    ELSE rows[1].role \o ": " \o rows[1].content \o "\n" \o format_history(Tail(rows))

\* get_last_messages without the rows.reverse() of app.py:73
get_last_messages_newest_first(table, user_id) ==
    LET selected == {table[i] : i \in {j \in 1..Len(table) : table[j].user_id = user_id}}
        rows == Limit(OrderByIdDesc(selected), HistoryLimit)
    IN format_history(rows)

\* get_last_messages without the WHERE user_id = ? of app.py:65
get_last_messages_any_user(table, user_id) ==
    LET selected == {table[i] : i \in 1..Len(table)}
        rows == Limit(OrderByIdDesc(selected), HistoryLimit)
    IN format_history(Reverse(rows))

\* app.py:60-79 on the table as it is when the SELECT runs
get_last_messages(table, user_id) ==
    LET selected == {table[i] : i \in {j \in 1..Len(table) : table[j].user_id = user_id}}
        rows == Limit(OrderByIdDesc(selected), HistoryLimit)
    IN format_history(Reverse(rows))

\* What requests.post can do when it is called (app.py:92-106)
PostOutcomes == {"RequestException", "ok", "not ok"}

\* send_message without the try/except of app.py:92-96: the RequestException
\* of requests.post leaves the function
send_message_uncaught(recipient_id, text, post) ==
    IF FB_PAGE_TOKEN = ""
    THEN [posts |-> 0, log |-> "FB_PAGE_TOKEN is missing", raised |-> FALSE]
    ELSE IF post = "RequestException"
    THEN [posts |-> 1, log |-> "", raised |-> TRUE]
    ELSE IF post = "ok" THEN [posts |-> 1, log |-> "Sent message", raised |-> FALSE]
    ELSE [posts |-> 1, log |-> "Failed to send message", raised |-> FALSE]

\* app.py:82-106: what the call does when requests.post, if it is called,
\* ends with post: the number of requests made, what is logged, and whether
\* an exception leaves the function; nothing is returned
send_message(recipient_id, text, post) ==
    IF FB_PAGE_TOKEN = ""
    THEN [posts |-> 0, log |-> "FB_PAGE_TOKEN is missing", raised |-> FALSE]
    ELSE IF post = "RequestException"
    THEN [posts |-> 1, log |-> "HTTP error", raised |-> FALSE]
    ELSE IF post = "ok" THEN [posts |-> 1, log |-> "Sent message", raised |-> FALSE]
    ELSE [posts |-> 1, log |-> "Failed to send message", raised |-> FALSE]

-----------------------------------------------------------------------------
(* Bounds and the inputs drawn for single calls of the helpers *)

MaxCommands == 2
MaxEntries == 2
MaxMessaging == 2

\* All sequences over S of length at most n
RECURSIVE SeqsUpTo(_, _)
SeqsUpTo(S, n) ==
    IF n = 0 THEN {<<>>}
    ELSE LET shorter == SeqsUpTo(S, n - 1) IN
         shorter \cup {Append(q, x) : q \in {r \in shorter : Len(r) = n - 1}, x \in S}

\* The object whose keys are those of fields that are not Absent
Obj(fields) ==
    JDict([k \in {kk \in DOMAIN fields : fields[kk] # Absent} |-> fields[k]])

Users == {"U1", "U2"}

\* One messaging event of a webhook payload
Event(sender, message) == Obj([sender |-> sender, message |-> message])

Sender(id) == Obj([id |-> id])

Message(text, commands) == Obj([text |-> text, commands |-> commands])

Command(name) == Obj([name |-> name])

TextValues == {Absent, JNull, JStr(""), JStr(" \n"), JStr("Hello"), JStr(" hi \n")}

CommandValues ==
    {Command(JStr("buy")), Command(JStr("help")), Command(JStr("")),
     Command(JNull), Command(Absent), JStr("buy")}

\* The message objects get_user_text is called with: text a string, null or
\* absent; commands absent, null or a list
MessageObjects ==
    {Message(t, c) : t \in TextValues,
                     c \in {Absent, JNull} \cup {JList(q) : q \in SeqsUpTo(CommandValues, MaxCommands)}}

EventA == Event(Sender(JStr("U1")), Message(JStr("hi"), Absent))
EventB == Event(Sender(JStr("U2")), Message(Absent, JList(<<Command(JStr("buy"))>>)))

\* Elements of entry: objects with a messaging list, with none, with a
\* messaging that is no list, and an element that is no object
EntryValues ==
    {Obj([messaging |-> JList(q)]) : q \in SeqsUpTo({EventA, EventB}, MaxMessaging)}
    \cup {Obj([messaging |-> Absent]), Obj([messaging |-> JNull]), JNull}

TopForms ==
    {<<Absent, Absent>>, <<JStr("messages"), EventB>>, <<JStr("messages"), JStr("v")>>,
     <<JStr("other"), EventB>>}

SampleForms ==
    {Absent, JStr("s"), Obj([field |-> JStr("messages"), value |-> EventA]),
     Obj([field |-> JStr("messages"), value |-> JNull]),
     Obj([field |-> JStr("changes"), value |-> EventA])}

EntryForms ==
    {Absent, JNull, JInt(1), JStr("")} \cup {JList(q) : q \in SeqsUpTo(EntryValues, MaxEntries)}

\* The values extract_message_events is called with
Payloads ==
    {JNull, JList(<<>>), JStr("x"), JInt(0)}
    \cup {Obj([field |-> t[1], value |-> t[2], sample |-> s, entry |-> e]) :
              t \in TopForms, s \in SampleForms, e \in EntryForms}

-----------------------------------------------------------------------------
(* Single calls of the helper functions *)

NoCall == [fn |-> "none"]
Pending == [type |-> "pending"]

\* The state of the server at startup, before any request
Startup ==
    /\ messages = <<>>
    /\ sqlite_sequence = 0
    /\ pc = <<>> /\ data = <<>> /\ events = <<>> /\ idx = <<>>
    /\ sender_id = <<>> /\ user_text = <<>> /\ history = <<>>
    /\ prompt = <<>> /\ generated = <<>> /\ bot_reply = <<>> /\ response = <<>>
    /\ steps = <<>> /\ outcomes = <<>> /\ served = 0

serverVars == <<model, FB_PAGE_TOKEN, VERIFY_TOKEN, messages, sqlite_sequence, pc, data, events,
                idx, sender_id, user_text, history, prompt, generated, bot_reply,
                response, steps, outcomes, served>>

InitHelpers ==
    /\ model = "None" /\ FB_PAGE_TOKEN = "" /\ VERIFY_TOKEN = ""
    /\ Startup
    /\ \/ \E m \in MessageObjects : call = [fn |-> "get_user_text", arg |-> m, ret |-> Pending]
       \/ \E d \in Payloads : call = [fn |-> "extract_message_events", arg |-> d, ret |-> Pending]

CallGetUserText ==
    /\ call.fn = "get_user_text" /\ call.ret = Pending
    /\ call' = [call EXCEPT !.ret = get_user_text(call.arg)]
    /\ UNCHANGED serverVars

CallExtract ==
    /\ call.fn = "extract_message_events" /\ call.ret = Pending
    /\ call' = [call EXCEPT !.ret = extract_message_events(call.arg)]
    /\ UNCHANGED serverVars

NextHelpers == CallGetUserText \/ CallExtract

SpecHelpers == InitHelpers /\ [][NextHelpers]_vars

-----------------------------------------------------------------------------
(* The POST /webhook handler, run by parallel handler instances *)

MaxRequests == 1

\* The handler instances the HTTP layer runs in parallel, in the order in
\* which it hands them requests
HandlerPool == <<"h1", "h2">>

Handlers == {HandlerPool[i] : i \in 1..Len(HandlerPool)}

\* A request body that is absent, or is not JSON
NoBody == [type |-> "absent"]
Malformed == [type |-> "malformed"]

\* app.py:187: request.get_json(silent=True) gives None for a body that is
\* absent or cannot be parsed, and the parsed value otherwise
get_json(body) == IF body.type \in {"absent", "malformed"} THEN JNull ELSE body

Batch(evs) == Obj([entry |-> JList(<<Obj([messaging |-> JList(evs)])>>)])

Hi(u) == Event(Sender(JStr(u)), Message(JStr(" hi \n"), Absent))
Buy(u) == Event(Sender(JStr(u)), Message(Absent, JList(<<Command(JStr("buy"))>>)))

\* The bodies POSTed to /webhook
Bodies ==
    {NoBody, Malformed, JList(<<>>),
     Batch(<<Hi("U1")>>),
     Batch(<<Event(Sender(JStr("U1")), EmptyDict)>>),
     Batch(<<Hi("U1"), Buy("U2")>>),
     Batch(<<Event(Absent, Message(JStr("hi"), Absent)), Event(Sender(JStr("")), Absent),
             Event(Sender(JStr("U1")), EmptyDict), Buy("U1")>>),
     Obj([field |-> JStr("messages"), value |-> Buy("U2"),
          sample |-> Obj([field |-> JStr("messages"),
                          value |-> Event(Sender(JStr("U1")), Message(JStr(" "), JList(<<>>)))])]),
     Obj([entry |-> JNull]),
     Obj([entry |-> JList(<<JStr("e")>>)]),
     Obj([entry |-> JList(<<Obj([messaging |-> JInt(1)])>>)]),
     Batch(<<Hi("U2"), JStr("m"), Hi("U2")>>),
     Batch(<<Event(JStr("U1"), Message(JStr("hi"), Absent)), Hi("U1")>>)}

\* What model.generate_content(prompt) followed by response.text gives
ApiOutcomes ==
    {Raised, ApiText(JStr("")), ApiText(JStr(" \n")), ApiText(JStr(" Da co \n"))}

NotCalled == [type |-> "not called"]

\* The generation call made whether a model is configured or not
GenerationCallsAlways == ApiOutcomes

\* app.py:166-170: the generation calls generate_bot_reply can make
GenerationCalls == IF model = "None" THEN {NotCalled} ELSE ApiOutcomes

OK200 == [status |-> 200, body |-> "OK"]

\* What Flask answers when webhook() raises
Error500 == [status |-> 500, body |-> "Internal Server Error"]

NoResponse == [status |-> 0, body |-> ""]

\* event_head without the "if not user_text: continue" of app.py:203-205
event_head_no_text_check(msg) ==
    IF ~IsDict(msg) THEN Raised
    ELSE LET sender == GetOr(msg, "sender", EmptyDict) IN
         IF ~IsDict(sender) THEN Raised
         ELSE IF ~Truthy(Get(sender, "id")) THEN [type |-> "continue"]
         ELSE LET r == get_user_text(GetOr(msg, "message", EmptyDict)) IN
              IF r = Raised THEN Raised
              ELSE [type |-> "process", sender_id |-> Get(sender, "id").s,
                    user_text |-> r.value[1]]

\* app.py:195-205: the head of the loop body for one event
event_head(msg) ==
    IF ~IsDict(msg) THEN Raised
    ELSE LET sender == GetOr(msg, "sender", EmptyDict) IN
         IF ~IsDict(sender) THEN Raised
         ELSE IF ~Truthy(Get(sender, "id")) THEN [type |-> "continue"]
         ELSE LET r == get_user_text(GetOr(msg, "message", EmptyDict)) IN
              IF r = Raised THEN Raised
              ELSE IF r.value[1] = "" THEN [type |-> "continue"]
              ELSE [type |-> "process", sender_id |-> Get(sender, "id").s,
                    user_text |-> r.value[1]]

Init ==
    /\ model \in {"None", "configured"}
    /\ FB_PAGE_TOKEN \in {"", "token"}
    /\ VERIFY_TOKEN = "secret"
    /\ messages = <<>>
    /\ sqlite_sequence = 0
    /\ pc = [h \in Handlers |-> "idle"]
    /\ data = [h \in Handlers |-> JNull]
    /\ events = [h \in Handlers |-> <<>>]
    /\ idx = [h \in Handlers |-> 0]
    /\ sender_id = [h \in Handlers |-> ""]
    /\ user_text = [h \in Handlers |-> ""]
    /\ history = [h \in Handlers |-> ""]
    /\ prompt = [h \in Handlers |-> ""]
    /\ generated = [h \in Handlers |-> NotCalled]
    /\ bot_reply = [h \in Handlers |-> ""]
    /\ response = [h \in Handlers |-> NoResponse]
    /\ steps = [h \in Handlers |-> <<>>]
    /\ outcomes = [h \in Handlers |-> <<>>]
    /\ served = 0
    /\ call = NoCall

config == <<model, FB_PAGE_TOKEN, VERIFY_TOKEN, call>>
locals == <<sender_id, user_text, history, prompt, generated, bot_reply>>

\* The request of handler h ends with an unhandled exception
Abort(h, why) ==
    /\ pc' = [pc EXCEPT ![h] = "idle"]
    /\ response' = [response EXCEPT ![h] = Error500]
    /\ outcomes' = [outcomes EXCEPT ![h] = Append(@, why)]

\* app.py:187-194: the request arrives, its body is parsed and the events
\* are extracted; at most max requests are received
Request(h, body, max) ==
    /\ pc[h] = "idle"
    /\ \E i \in 1..Len(HandlerPool) :
          HandlerPool[i] = h /\ \A j \in 1..(i - 1) : pc[HandlerPool[j]] # "idle"
    /\ served < max
    /\ served' = served + 1
    /\ data' = [data EXCEPT ![h] = get_json(body)]
    /\ idx' = [idx EXCEPT ![h] = 1]
    /\ sender_id' = [sender_id EXCEPT ![h] = ""]
    /\ user_text' = [user_text EXCEPT ![h] = ""]
    /\ history' = [history EXCEPT ![h] = ""]
    /\ prompt' = [prompt EXCEPT ![h] = ""]
    /\ bot_reply' = [bot_reply EXCEPT ![h] = ""]
    /\ steps' = [steps EXCEPT ![h] = <<>>]
    /\ UNCHANGED generated
    /\ LET d == get_json(body)
           extracted == extract_message_events(d)
       IN IF d = JNull
          THEN /\ response' = [response EXCEPT ![h] = OK200]
               /\ outcomes' = [outcomes EXCEPT ![h] = <<>>]
               /\ events' = [events EXCEPT ![h] = <<>>]
               /\ pc' = pc
          ELSE IF extracted = Raised
          THEN /\ response' = [response EXCEPT ![h] = Error500]
               /\ outcomes' = [outcomes EXCEPT ![h] = <<>>]
               /\ events' = [events EXCEPT ![h] = <<>>]
               /\ pc' = pc
          ELSE /\ response' = [response EXCEPT ![h] = NoResponse]
               /\ outcomes' = [outcomes EXCEPT ![h] = <<>>]
               /\ events' = [events EXCEPT ![h] = extracted.value]
               /\ pc' = [pc EXCEPT ![h] = "for"]
    /\ UNCHANGED <<config, messages, sqlite_sequence>>

Receive(h, body) == Request(h, body, MaxRequests)

\* app.py:194-212 and 230: the for loop takes the next event, skips it or
\* starts processing it; after the last event the request is answered
NextEvent(h) ==
    /\ pc[h] = "for"
    /\ steps' = [steps EXCEPT ![h] = <<>>]
    /\ IF idx[h] > Len(events[h])
       THEN /\ pc' = [pc EXCEPT ![h] = "idle"]
            /\ response' = [response EXCEPT ![h] = OK200]
            /\ UNCHANGED <<idx, sender_id, user_text, outcomes>>
       ELSE LET head == event_head(events[h][idx[h]]) IN
            IF head = Raised
            THEN Abort(h, "payload error") /\ UNCHANGED <<idx, sender_id, user_text>>
            ELSE IF head.type = "continue"
            THEN /\ idx' = [idx EXCEPT ![h] = @ + 1]
                 /\ outcomes' = [outcomes EXCEPT ![h] = Append(@, "skipped")]
                 /\ UNCHANGED <<pc, response, sender_id, user_text>>
            ELSE /\ sender_id' = [sender_id EXCEPT ![h] = head.sender_id]
                 /\ user_text' = [user_text EXCEPT ![h] = head.user_text]
                 /\ pc' = [pc EXCEPT ![h] = "save user"]
                 /\ UNCHANGED <<idx, response, outcomes>>
    /\ UNCHANGED <<config, messages, sqlite_sequence, data, events, served,
                   history, prompt, generated, bot_reply>>

\* app.py:215 and 225: save_message commits the row, or raises sqlite3.Error
\* when the storage is unavailable
SaveMessage(h, at, role, content, next) ==
    /\ pc[h] = at
    /\ \/ /\ messages' = save_message(messages, sqlite_sequence, sender_id[h], role, content)
          /\ sqlite_sequence' = sqlite_sequence + 1
          /\ steps' = [steps EXCEPT ![h] =
                          Append(@, [op |-> "save_message", id |-> sqlite_sequence + 1])]
          /\ pc' = [pc EXCEPT ![h] = next]
          /\ UNCHANGED <<response, outcomes>>
       \/ /\ Abort(h, "storage error")
          /\ UNCHANGED <<messages, sqlite_sequence, steps>>
    /\ UNCHANGED <<config, data, events, idx, served, locals>>

\* SaveUser writing the role "bot" in place of "user"
SaveUser_as_bot(h) == SaveMessage(h, "save user", "bot", user_text[h], "history")

\* app.py:215
SaveUser(h) == SaveMessage(h, "save user", "user", user_text[h], "history")

\* app.py:218-220
GetLastMessages(h) ==
    /\ pc[h] = "history"
    /\ \/ /\ history' = [history EXCEPT ![h] = get_last_messages(messages, sender_id[h])]
          /\ prompt' = [prompt EXCEPT ![h] =
                           build_prompt(get_last_messages(messages, sender_id[h]), user_text[h])]
          /\ steps' = [steps EXCEPT ![h] = Append(@, [op |-> "get_last_messages"])]
          /\ pc' = [pc EXCEPT ![h] = "generate"]
          /\ UNCHANGED <<response, outcomes>>
       \/ /\ Abort(h, "storage error")
          /\ UNCHANGED <<history, prompt, steps>>
    /\ UNCHANGED <<config, messages, sqlite_sequence, data, events, idx, served,
                   sender_id, user_text, generated, bot_reply>>

\* app.py:166-170: generate_bot_reply calls the generation API, unless no
\* model is configured, and the call raises or gives a response
GenerateContent(h) ==
    /\ pc[h] = "generate"
    /\ \E api \in GenerationCalls : generated' = [generated EXCEPT ![h] = api]
    /\ pc' = [pc EXCEPT ![h] = "reply"]
    /\ UNCHANGED <<config, messages, sqlite_sequence, data, events, idx, served,
                   sender_id, user_text, history, prompt, bot_reply, response,
                   steps, outcomes>>

\* BotReply going on to send_message without the save_message of app.py:225
BotReply_unsaved(h) ==
    /\ pc[h] = "reply"
    /\ bot_reply' = [bot_reply EXCEPT ![h] = generate_bot_reply(prompt[h], generated[h])]
    /\ generated' = [generated EXCEPT ![h] = NotCalled]
    /\ steps' = [steps EXCEPT ![h] =
                    Append(@, [op |-> "generate_bot_reply",
                               api_calls |-> IF generated[h] = NotCalled THEN 0 ELSE 1])]
    /\ pc' = [pc EXCEPT ![h] = "send"]
    /\ UNCHANGED <<config, messages, sqlite_sequence, data, events, idx, served,
                   sender_id, user_text, history, prompt, response, outcomes>>

\* app.py:171-175 and 221: generate_bot_reply returns
BotReply(h) ==
    /\ pc[h] = "reply"
    /\ bot_reply' = [bot_reply EXCEPT ![h] = generate_bot_reply(prompt[h], generated[h])]
    /\ generated' = [generated EXCEPT ![h] = NotCalled]
    /\ steps' = [steps EXCEPT ![h] =
                    Append(@, [op |-> "generate_bot_reply",
                               api_calls |-> IF generated[h] = NotCalled THEN 0 ELSE 1])]
    /\ pc' = [pc EXCEPT ![h] = "save bot"]
    /\ UNCHANGED <<config, messages, sqlite_sequence, data, events, idx, served,
                   sender_id, user_text, history, prompt, response, outcomes>>

\* SaveBot with the sqlite3 error of save_message caught and passed over
SaveBot_swallowed(h) ==
    \/ SaveMessage(h, "save bot", "bot", bot_reply[h], "send")
    \/ /\ pc[h] = "save bot"
       /\ pc' = [pc EXCEPT ![h] = "send"]
       /\ steps' = [steps EXCEPT ![h] = Append(@, [op |-> "save_message", id |-> 0])]
       /\ UNCHANGED <<config, messages, sqlite_sequence, data, events, idx, served,
                      locals, response, outcomes>>

\* app.py:225
SaveBot(h) == SaveMessage(h, "save bot", "bot", bot_reply[h], "send")

\* app.py:228, then back to the head of the for loop; an exception leaving
\* send_message would leave webhook() as well
Send(h) ==
    /\ pc[h] = "send"
    /\ \E post \in PostOutcomes :
          LET sent == send_message(sender_id[h], bot_reply[h], post) IN
          IF sent.raised
          THEN /\ Abort(h, "send error")
               /\ UNCHANGED <<steps, idx>>
          ELSE /\ steps' = [steps EXCEPT ![h] =
                               Append(@, [op |-> "send_message", recipient_id |-> sender_id[h],
                                          text |-> bot_reply[h], posts |-> sent.posts])]
               /\ outcomes' = [outcomes EXCEPT ![h] = Append(@, "sent")]
               /\ idx' = [idx EXCEPT ![h] = @ + 1]
               /\ pc' = [pc EXCEPT ![h] = "for"]
               /\ UNCHANGED response
    /\ UNCHANGED <<config, messages, sqlite_sequence, data, events, served, locals>>

\* app.py:185-230
webhook(h) ==
    \/ \E body \in Bodies : Receive(h, body)
    \/ NextEvent(h)
    \/ SaveUser(h)
    \/ GetLastMessages(h)
    \/ GenerateContent(h)
    \/ BotReply(h)
    \/ SaveBot(h)
    \/ Send(h)

Next == \E h \in Handlers : webhook(h)

Spec == Init /\ [][Next]_vars

-----------------------------------------------------------------------------
(* The message store on its own: any sequence of appends, and reads *)

MaxTurns == 7

\* The turns appended: a user and a bot turn, for either user
Turns == {<<"user", "hi">>, <<"bot", fallback>>}

InitStore ==
    /\ model = "None" /\ FB_PAGE_TOKEN = "" /\ VERIFY_TOKEN = ""
    /\ Startup
    /\ call = NoCall

StoreAppend(u, turn) ==
    /\ Len(messages) < MaxTurns
    /\ messages' = save_message(messages, sqlite_sequence, u, turn[1], turn[2])
    /\ sqlite_sequence' = sqlite_sequence + 1
    /\ call' = NoCall
    /\ UNCHANGED <<model, FB_PAGE_TOKEN, VERIFY_TOKEN, pc, data, events, idx, sender_id, user_text,
                   history, prompt, generated, bot_reply, response, steps, outcomes, served>>

StoreRead(u) ==
    /\ call' = [fn |-> "get_last_messages", arg |-> u,
                ret |-> Returned(get_last_messages(messages, u))]
    /\ UNCHANGED serverVars

NextStore ==
    \/ \E u \in Users, turn \in Turns : StoreAppend(u, turn)
    \/ \E u \in Users \cup {"U3"} : StoreRead(u)

SpecStore == InitStore /\ [][NextStore]_vars

\* The turns of user u in the order in which they were inserted
TurnsOf(u) == SelectSeq(messages, LAMBDA r : r.user_id = u)

Min(a, b) == IF a < b THEN a ELSE b

\* The lines "role: content" of the turns ts[from..Len(ts)], oldest first
RECURSIVE Lines(_, _)
Lines(ts, from) ==
    IF from > Len(ts) THEN ""
    ELSE ts[from].role \o ": " \o ts[from].content \o "\n" \o Lines(ts, from + 1)

\* C5: get_last_messages(user) renders the min(N, 5) most recently inserted
\* turns of that user, and of no other user, oldest first, one line
\* "role: content" each; it is the empty string for a user with no turn.
C5_LastMessages ==
    call.fn = "get_last_messages" =>
        LET ts == TurnsOf(call.arg)
            n == Min(Len(ts), 5)
        IN /\ call.ret = Returned(Lines(ts, Len(ts) - n + 1))
           /\ Len(ts) = 0 => call.ret.value = ""

\* A user with six turns, interleaved with a turn of the other user, has been
\* read: the five newest are rendered, oldest first.
C5_Witness ==
    /\ call.fn = "get_last_messages" /\ call.arg = "U1"
    /\ Len(TurnsOf("U1")) = 6 /\ Len(TurnsOf("U2")) = 1
    /\ messages[3].user_id = "U2"
    /\ messages[1].role = "bot"
    /\ call.ret.value = "user: hi\nbot: " \o fallback \o "\nbot: " \o fallback
                         \o "\nuser: hi\nuser: hi\n"

-----------------------------------------------------------------------------
(* C6: the order of the extracted events *)

\* entry is absent or a list of objects, each with no messaging or a list
RecognizedShape(d) ==
    IsDict(d) =>
        \/ "entry" \notin DOMAIN d.items
        \/ /\ IsList(d.items["entry"])
           /\ \A i \in 1..Len(d.items["entry"].elems) :
                 LET e == d.items["entry"].elems[i] IN
                 /\ IsDict(e)
                 /\ "messaging" \in DOMAIN e.items => IsList(e.items["messaging"])

EntriesOf(d) == IF "entry" \in DOMAIN d.items THEN d.items["entry"].elems ELSE <<>>

MessagingOf(e) == IF "messaging" \in DOMAIN e.items THEN e.items["messaging"].elems ELSE <<>>

\* The number of messaging events of the entries before entry i
RECURSIVE EventsBefore(_, _)
EventsBefore(es, i) ==
    IF i <= 1 THEN 0 ELSE EventsBefore(es, i - 1) + Len(MessagingOf(es[i - 1]))

HasTopEvent(d) ==
    /\ "field" \in DOMAIN d.items /\ d.items["field"] = JStr("messages")
    /\ "value" \in DOMAIN d.items /\ d.items["value"].type = "dict"

HasSampleEvent(d) ==
    /\ "sample" \in DOMAIN d.items /\ d.items["sample"].type = "dict"
    /\ HasTopEvent(d.items["sample"])

\* r is the list the claim describes for the object d
InClaimedOrder(r, d) ==
    LET nTop == IF HasTopEvent(d) THEN 1 ELSE 0
        nSmp == IF HasSampleEvent(d) THEN 1 ELSE 0
        es == EntriesOf(d)
    IN /\ Len(r) = nTop + nSmp + EventsBefore(es, Len(es) + 1)
       /\ nTop = 1 => r[1] = d.items["value"]
       /\ nSmp = 1 => r[nTop + 1] = d.items["sample"].items["value"]
       /\ \A i \in 1..Len(es) : \A j \in 1..Len(MessagingOf(es[i])) :
             r[nTop + nSmp + EventsBefore(es, i) + j] = MessagingOf(es[i])[j]

TwoByTwo ==
    Obj([entry |-> JList(<<Obj([messaging |-> JList(<<EventA, EventB>>)]),
                           Obj([messaging |-> JList(<<EventB, EventA>>)])>>)])

\* C6: for a payload of a recognized shape extract_message_events returns the
\* top-level value, then the sample value, then the messaging events of the
\* entries in entry order and messaging order; a payload that is no object
\* gives the empty list; two entries of two events give those four events.
C6_ExtractionOrder ==
    (call.fn = "extract_message_events" /\ call.ret # Pending /\ RecognizedShape(call.arg)) =>
        /\ call.ret.type = "return"
        /\ IF IsDict(call.arg) THEN InClaimedOrder(call.ret.value, call.arg)
                               ELSE call.ret.value = <<>>
        /\ call.arg = TwoByTwo => call.ret.value = <<EventA, EventB, EventB, EventA>>

\* A payload with a top-level event, a sample event and two entries has been
\* extracted into six events.
C6_Witness ==
    /\ call.fn = "extract_message_events"
    /\ call.ret = Returned(<<EventB, EventA, EventA, EventB, EventB, EventA>>)

-----------------------------------------------------------------------------
(* C8: the combination rule of get_user_text *)

\* The first and last position of s without its leading and trailing
\* whitespace; <<1, 0>> when s is empty or whitespace only
TrimSpan(s) ==
    CHOOSE p \in (1..(Len(s) + 1)) \X (0..Len(s)) :
        /\ \A k \in 1..(p[1] - 1) : SubSeq(s, k, k) \in Whitespace
        /\ \A k \in (p[2] + 1)..Len(s) : SubSeq(s, k, k) \in Whitespace
        /\ IF p[1] <= p[2]
           THEN SubSeq(s, p[1], p[1]) \notin Whitespace /\ SubSeq(s, p[2], p[2]) \notin Whitespace
           ELSE p = <<1, 0>>

\* s without its leading and trailing whitespace
Trimmed(s) == SubSeq(s, TrimSpan(s)[1], TrimSpan(s)[2])

\* s is empty or whitespace only
Blank(s) == \A k \in 1..Len(s) : SubSeq(s, k, k) \in Whitespace

TrimmedText(m) ==
    Trimmed(IF "text" \in DOMAIN m.items /\ m.items["text"].type = "str"
            THEN m.items["text"].s ELSE "")

CommandsOf(m) ==
    IF "commands" \in DOMAIN m.items /\ m.items["commands"].type = "list"
    THEN m.items["commands"].elems ELSE <<>>

IsNamed(c) ==
    /\ c.type = "dict" /\ "name" \in DOMAIN c.items
    /\ c.items["name"].type = "str" /\ c.items["name"].s # ""

\* The names of the first k elements of cs, in their order
RECURSIVE NamesUpTo(_, _)
NamesUpTo(cs, k) ==
    IF k = 0 THEN <<>>
    ELSE IF IsNamed(cs[k]) THEN Append(NamesUpTo(cs, k - 1), cs[k].items["name"].s)
    ELSE NamesUpTo(cs, k - 1)

RECURSIVE CommaJoined(_, _)
CommaJoined(ns, k) ==
    IF k = 0 THEN ""
    ELSE IF k = 1 THEN ns[1]
    ELSE CommaJoined(ns, k - 1) \o ", " \o ns[k]

Combined(t, ns) ==
    CASE t # "" /\ ns # <<>> -> t \o "\nCommands: " \o CommaJoined(ns, Len(ns))
      [] t = "" /\ ns # <<>> -> "Commands: " \o CommaJoined(ns, Len(ns))
      [] t # "" /\ ns = <<>> -> t
      [] OTHER -> ""

\* C8: for every message object get_user_text returns the combination of the
\* trimmed text and the names of the named commands in their order, which is
\* empty exactly when there is neither a text nor a named command; the three
\* examples of the specification give the strings it states.
C8_CombinationRule ==
    (call.fn = "get_user_text" /\ call.ret # Pending) =>
        LET t == TrimmedText(call.arg)
            ns == NamesUpTo(CommandsOf(call.arg), Len(CommandsOf(call.arg)))
        IN /\ call.ret.type = "return"
           /\ call.ret.value = <<Combined(t, ns), ns>>
           /\ call.ret.value[1] = "" <=> (t = "" /\ ns = <<>>)
           /\ call.arg = Message(JStr("Hello"), JList(<<Command(JStr("buy")), Command(JStr("help"))>>))
                 => call.ret.value[1] = "Hello\nCommands: buy, help"
           /\ call.arg = Message(JStr(""), JList(<<>>)) => call.ret.value[1] = ""
           /\ call.arg = Message(JStr(""), JList(<<Command(JStr("buy"))>>))
                 => call.ret.value[1] = "Commands: buy"

\* A text with surrounding whitespace and two commands, one of them unnamed,
\* have been combined.
C8_Witness ==
    /\ call.fn = "get_user_text"
    /\ call.arg = Message(JStr(" hi \n"), JList(<<Command(Absent), Command(JStr("help"))>>))
    /\ call.ret = Returned(<<"hi\nCommands: help", <<"help">>>>)

-----------------------------------------------------------------------------
(* The claims about one POST /webhook request *)

\* The request handler h served last has been answered
Answered(h) == pc[h] = "idle" /\ response[h] # NoResponse

HasSenderId(e) ==
    /\ e.type = "dict" /\ "sender" \in DOMAIN e.items
    /\ e.items["sender"].type = "dict" /\ "id" \in DOMAIN e.items["sender"].items
    /\ e.items["sender"].items["id"].type = "str"
    /\ e.items["sender"].items["id"].s # ""

\* e is an object whose sender is absent, or an object without an id or with
\* a null or empty id
LacksSenderId(e) ==
    /\ e.type = "dict"
    /\ "sender" \in DOMAIN e.items =>
          /\ e.items["sender"].type = "dict"
          /\ "id" \in DOMAIN e.items["sender"].items =>
                e.items["sender"].items["id"] \in {JNull, JStr("")}

\* The normalized text of the event e, by the combination rule
NormalizedText(e) ==
    IF "message" \notin DOMAIN e.items \/ e.items["message"].type # "dict" THEN ""
    ELSE LET m == e.items["message"] IN
         Combined(TrimmedText(m), NamesUpTo(CommandsOf(m), Len(CommandsOf(m))))

SenderIdOf(e) == e.items["sender"].items["id"].s

\* e has a sender id and a non-empty normalized text
Processable(e) == HasSenderId(e) /\ NormalizedText(e) # ""

\* e has a sender id and a message that is absent or an object with neither
\* a text nor a named command
LacksText(e) ==
    /\ HasSenderId(e)
    /\ "message" \in DOMAIN e.items => e.items["message"].type = "dict"
    /\ NormalizedText(e) = ""

Failures == {"storage error", "payload error"}

\* C1: every answered POST /webhook request was answered 200 "OK".
C1_AlwaysOK ==
    \A h \in Handlers : Answered(h) => response[h] = OK200

\* C2: when an event of an answered request failed, every later event of the
\* request with a sender id and a non-empty normalized text was processed up
\* to its send.
C2_FailureIsolated ==
    \A h \in Handlers : Answered(h) =>
        \A j \in 1..Len(outcomes[h]) : outcomes[h][j] \in Failures =>
            \A i \in (j + 1)..Len(events[h]) : Processable(events[h][i]) =>
                i <= Len(outcomes[h]) /\ outcomes[h][i] = "sent"

\* The event whose processing handler h has just completed
Completed(h) == steps[h] # <<>> /\ steps[h][Len(steps[h])].op = "send_message"

RowWithId(n) == {messages[i] : i \in {k \in 1..Len(messages) : messages[k].id = n}}

\* C3: an event with a sender id and a non-empty normalized text is processed
\* to its send unless a storage call fails, and no other event is; when the
\* processing of an event has completed, the handler has made exactly five
\* calls for it: save_message of the user turn (the sender, role
\* user, the normalized text), get_last_messages, generate_bot_reply,
\* save_message of the bot turn (the sender, role bot, the reply) and one
\* send_message to the sender with the non-empty reply; the two rows are in the
\* table, the user turn first.
C3_TwoTurnsOneSend ==
    \A h \in Handlers : Completed(h) =>
        LET e == events[h][idx[h] - 1]
            st == steps[h]
        IN /\ Processable(e)
           /\ Len(st) = 5
           /\ st[1].op = "save_message" /\ st[2].op = "get_last_messages"
           /\ st[3].op = "generate_bot_reply" /\ st[4].op = "save_message"
           /\ st[1].id < st[4].id
           /\ RowWithId(st[1].id) = {[id |-> st[1].id, user_id |-> SenderIdOf(e),
                                       role |-> "user", content |-> NormalizedText(e)]}
           /\ RowWithId(st[4].id) = {[id |-> st[4].id, user_id |-> SenderIdOf(e),
                                       role |-> "bot", content |-> st[5].text]}
           /\ st[5].recipient_id = SenderIdOf(e)
           /\ st[5].text # ""
           /\ \A i \in 1..Len(outcomes[h]) :
                 /\ outcomes[h][i] = "sent" => Processable(events[h][i])
                 /\ (Processable(events[h][i]) /\ outcomes[h][i] # "storage error")
                    => outcomes[h][i] = "sent"

\* An event of user U2 has been processed: its two turns are the first rows of
\* the table and the reply was posted to U2.
C3_Witness ==
    \E h \in Handlers :
        /\ Completed(h)
        /\ Len(messages) = 2
        /\ messages[1] = [id |-> 1, user_id |-> "U2", role |-> "user", content |-> "Commands: buy"]
        /\ messages[2] = [id |-> 2, user_id |-> "U2", role |-> "bot", content |-> "Da co"]
        /\ steps[h][5] = [op |-> "send_message", recipient_id |-> "U2", text |-> "Da co", posts |-> 1]

\* Handler h takes a step
Moves(h) ==
    \/ pc'[h] # pc[h] \/ idx'[h] # idx[h] \/ outcomes'[h] # outcomes[h]
    \/ response'[h] # response[h] \/ steps'[h] # steps[h]

\* C4: the step the handler takes at an event without a sender id, or with a
\* sender id and an empty normalized text, writes no row, makes no call
\* (no history read, no generation, no send), fails nothing and leaves the
\* handler at the head of the loop on the next event; a request of skipped
\* events only is answered 200 "OK".
C4_SkippedEvent ==
    [][\A h \in Handlers :
         /\ (/\ pc[h] = "for" /\ idx[h] <= Len(events[h])
             /\ LacksSenderId(events[h][idx[h]]) \/ LacksText(events[h][idx[h]])
             /\ Moves(h))
            => /\ messages' = messages /\ sqlite_sequence' = sqlite_sequence
               /\ steps'[h] = <<>>
               /\ generated'[h] = NotCalled
               /\ history'[h] = history[h]
               /\ outcomes'[h] = Append(outcomes[h], "skipped")
               /\ pc'[h] = "for" /\ idx'[h] = idx[h] + 1
               /\ response'[h] = NoResponse
         /\ (/\ Answered(h)' /\ events'[h] # <<>>
             /\ \A i \in 1..Len(events'[h]) :
                   LacksSenderId(events'[h][i]) \/ LacksText(events'[h][i]))
            => /\ response'[h] = OK200
               /\ outcomes'[h] = [i \in 1..Len(events'[h]) |-> "skipped"]
      ]_vars

\* A request whose first events lack a sender id or a text has been answered
\* 200 after its last event was processed.
C4_Witness ==
    \E h \in Handlers :
        /\ Answered(h) /\ response[h] = OK200
        /\ outcomes[h] = <<"skipped", "skipped", "skipped", "sent">>

\* C7: a request with an object payload in which no storage call failed is
\* answered 200 "OK".
C7_UnrecognizedIgnored ==
    \A h \in Handlers :
        (/\ Answered(h) /\ IsDict(data[h])
         /\ \A j \in 1..Len(outcomes[h]) : outcomes[h][j] # "storage error")
        => response[h] = OK200

\* The reply the claim states for the outcome g of the generation call
ClaimedReply(g) ==
    IF g \in {NotCalled, Raised} THEN fallback
    ELSE LET s == IF g.text.type = "str" THEN g.text.s ELSE ""
         IN IF Blank(s) THEN fallback ELSE Trimmed(s)

\* C9: generate_bot_reply returns, whatever the generation call did: the
\* fallback when it raised or gave an empty or whitespace-only text, the
\* trimmed text otherwise, and never an empty or whitespace-only string; the
\* content of every bot turn in the table and every text sent is non-empty.
C9_ReplyNeverEmpty ==
    [][\A h \in Handlers :
         /\ pc[h] = "reply" /\ Moves(h) =>
               /\ pc'[h] = "save bot"
               /\ bot_reply'[h] = ClaimedReply(generated[h])
               /\ ~Blank(bot_reply'[h])
         /\ \A i \in 1..Len(messages') :
               messages'[i].role = "bot" => messages'[i].content # ""
         /\ \A k \in 1..Len(steps'[h]) :
               steps'[h][k].op = "send_message" => steps'[h][k].text # ""
      ]_vars

\* A response text with surrounding whitespace has been trimmed, saved as a
\* bot turn and sent; elsewhere a whitespace-only response gave the fallback.
C9_Witness ==
    \E h \in Handlers :
        /\ Completed(h)
        /\ steps[h][5].text = "Da co"
        /\ \E i \in 1..Len(messages) : messages[i].role = "bot" /\ messages[i].content = "Da co"
        /\ \E i \in 1..Len(messages) : messages[i].role = "bot" /\ messages[i].content = fallback
        /\ model = "configured"

\* C10: with no model configured the generation API is never called,
\* generate_bot_reply returns the fallback, and every processed event is
\* completed with the fallback as the content of its bot turn and as the text
\* sent.
C10_NoCredential ==
    model = "None" =>
        /\ \A h \in Handlers :
              /\ generated[h] = NotCalled
              /\ \A k \in 1..Len(steps[h]) :
                    /\ steps[h][k].op = "generate_bot_reply" => steps[h][k].api_calls = 0
                    /\ steps[h][k].op = "send_message" => steps[h][k].text = fallback
              /\ pc[h] \in {"save bot", "send"} => bot_reply[h] = fallback
              /\ \A i \in 1..Len(outcomes[h]) :
                    (Processable(events[h][i]) /\ outcomes[h][i] # "storage error")
                    => outcomes[h][i] = "sent"
        /\ \A i \in 1..Len(messages) :
              messages[i].role = "bot" => messages[i].content = fallback

\* With no model configured two events have been processed and answered with
\* the fallback.
C10_Witness ==
    /\ model = "None"
    /\ \E h \in Handlers :
          /\ Answered(h) /\ outcomes[h] = <<"sent", "sent">>
          /\ Len(messages) = 4
          /\ messages[2].role = "bot" /\ messages[2].content = fallback
          /\ messages[4].role = "bot" /\ messages[4].content = fallback

-----------------------------------------------------------------------------
(* C11: the outbound send *)

\* The number of send_message calls among the calls st
SendCalls(st) == Cardinality({k \in 1..Len(st) : st[k].op = "send_message"})

\* C11: the step in which the handler calls send_message for a processed
\* event makes at most one POST to the send API, none when the page token is
\* missing and one (never two) otherwise; whatever the POST ends with, nothing
\* is raised, the table is left as it is with the user and the bot turn of the
\* event in it, and the handler is at the head of the loop on the next event.
C11_BestEffortSend ==
    [][\A h \in Handlers :
         (pc[h] = "send" /\ Moves(h)) =>
            /\ messages' = messages /\ sqlite_sequence' = sqlite_sequence
            /\ response'[h] = NoResponse
            /\ outcomes'[h] = Append(outcomes[h], "sent")
            /\ pc'[h] = "for" /\ idx'[h] = idx[h] + 1
            /\ Len(steps'[h]) = Len(steps[h]) + 1
            /\ SendCalls(steps[h]) = 0 /\ SendCalls(steps'[h]) = 1
            /\ LET st == steps'[h] IN
               /\ st[Len(st)].posts = (IF FB_PAGE_TOKEN = "" THEN 0 ELSE 1)
               /\ RowWithId(st[1].id) = {[id |-> st[1].id, user_id |-> sender_id[h],
                                           role |-> "user", content |-> user_text[h]]}
               /\ RowWithId(st[4].id) = {[id |-> st[4].id, user_id |-> sender_id[h],
                                           role |-> "bot", content |-> bot_reply[h]]}
      ]_vars

\* With a page token the second event of a request has been sent, as the
\* first was, with one POST; the four turns are in the table and the handler
\* is back at the head of the loop.
C11_Witness ==
    /\ FB_PAGE_TOKEN = "token"
    /\ \E h \in Handlers :
          /\ Completed(h) /\ outcomes[h] = <<"sent", "sent">>
          /\ steps[h][5].posts = 1
          /\ pc[h] = "for" /\ idx[h] = 3
          /\ Len(messages) = 4

-----------------------------------------------------------------------------
(* GET /webhook, the verification endpoint *)

\* verify without the "and VERIFY_TOKEN" of app.py:180
verify_any_secret(args) ==
    IF EqStr(Get(args, "hub.verify_token"), VERIFY_TOKEN)
    THEN Returned(Get(args, "hub.challenge"))
    ELSE Returned(JStr("Verification failed"))

\* app.py:178-182; args is request.args, and args.get gives None for a
\* parameter that is not in the query string
verify(args) ==
    IF EqStr(Get(args, "hub.verify_token"), VERIFY_TOKEN) /\ VERIFY_TOKEN # ""
    THEN Returned(Get(args, "hub.challenge"))
    ELSE Returned(JStr("Verification failed"))

\* What Flask answers for the value a view returns: a str is the body of a
\* 200 response; None is no valid response, and the request ends with a 500
make_response(rv) ==
    IF IsStr(rv.value) THEN [status |-> 200, body |-> rv.value.s] ELSE Error500

\* The query strings presented: hub.verify_token and hub.challenge, each
\* present or not
PresentedTokens == {Absent, JStr(""), JStr("secret"), JStr("Secret"), JStr("secret ")}
PresentedChallenges == {Absent, JStr(""), JStr("1234")}

QueryStrings ==
    {Obj([t \in {"hub.verify_token", "hub.challenge"} |->
              IF t = "hub.verify_token" THEN token ELSE challenge]) :
         token \in PresentedTokens, challenge \in PresentedChallenges}

\* The tables chat.db can hold when the server starts
StoredTables ==
    {<<>>,
     <<[id |-> 1, user_id |-> "U1", role |-> "user", content |-> "hi"]>>,
     <<[id |-> 1, user_id |-> "U1", role |-> "user", content |-> "hi"],
       [id |-> 2, user_id |-> "U1", role |-> "bot", content |-> fallback]>>}

InitVerify ==
    /\ model = "None" /\ FB_PAGE_TOKEN = ""
    /\ VERIFY_TOKEN \in {"", "secret", "Secret"}
    /\ messages \in StoredTables
    /\ sqlite_sequence = Len(messages)
    /\ pc = <<>> /\ data = <<>> /\ events = <<>> /\ idx = <<>>
    /\ sender_id = <<>> /\ user_text = <<>> /\ history = <<>>
    /\ prompt = <<>> /\ generated = <<>> /\ bot_reply = <<>> /\ response = <<>>
    /\ steps = <<>> /\ outcomes = <<>> /\ served = 0
    /\ call = NoCall

\* A GET /webhook request is answered
Verify(args) ==
    /\ call' = [fn |-> "verify", arg |-> args, ret |-> make_response(verify(args))]
    /\ UNCHANGED serverVars

NextVerify == \E args \in QueryStrings : Verify(args)

SpecVerify == InitVerify /\ [][NextVerify]_vars

\* The query string q presents the parameter k with the value v
Presents(q, k, v) == k \in DOMAIN q.items /\ q.items[k] = JStr(v)

\* C12: GET /webhook answers 200 with the presented hub.challenge as the body
\* when the presented hub.verify_token equals VERIFY_TOKEN and VERIFY_TOKEN is
\* not empty, and 200 with "Verification failed" in every other case (another
\* token, no token, an empty VERIFY_TOKEN with any token or none); the table
\* is the same before and after.
C12_VerifyToken ==
    [][call'.fn = "verify" =>
         LET q == call'.arg
             accepted == VERIFY_TOKEN # "" /\ Presents(q, "hub.verify_token", VERIFY_TOKEN)
         IN /\ accepted =>
                  \A c \in {"", "1234"} : Presents(q, "hub.challenge", c)
                      => call'.ret = [status |-> 200, body |-> c]
            /\ ~accepted => call'.ret = [status |-> 200, body |-> "Verification failed"]
            /\ call'.ret.body = "1234" => accepted
            /\ messages' = messages /\ sqlite_sequence' = sqlite_sequence
            /\ VERIFY_TOKEN' = VERIFY_TOKEN
      ]_vars

\* The secret has been presented with a challenge, which was echoed, while
\* the table holds two turns.
C12_Witness ==
    /\ VERIFY_TOKEN = "secret" /\ Len(messages) = 2
    /\ call.fn = "verify"
    /\ call.arg = Obj([t \in {"hub.verify_token", "hub.challenge"} |->
                          IF t = "hub.verify_token" THEN JStr("secret") ELSE JStr("1234")])
    /\ call.ret = [status |-> 200, body |-> "1234"]

-----------------------------------------------------------------------------
(* Requests handled at the same time by parallel handler instances *)

MaxParallel == 2

\* The bodies POSTed while another request may be in progress: events of the
\* same user in both, and two events in one
ParallelBodies ==
    {Batch(<<Hi("U1")>>), Batch(<<Buy("U1"), Hi("U2")>>)}

\* The GET /webhook requests made meanwhile
ParallelQueries ==
    {Obj([t \in {"hub.verify_token", "hub.challenge"} |->
              IF t = "hub.verify_token" THEN JStr("secret") ELSE JStr("1234")])}

InitParallel ==
    /\ Init
    /\ model = "None" /\ FB_PAGE_TOKEN = "token"

Post(h) ==
    \/ \E body \in ParallelBodies : Request(h, body, MaxParallel)
    \/ NextEvent(h)
    \/ SaveUser(h)
    \/ GetLastMessages(h)
    \/ GenerateContent(h)
    \/ BotReply(h)
    \/ SaveBot(h)
    \/ Send(h)

NextParallel ==
    \/ \E h \in Handlers : Post(h)
    \/ \E args \in ParallelQueries : Verify(args)

SpecParallel == InitParallel /\ [][NextParallel]_vars

-----------------------------------------------------------------------------
(* C13: the table is append-only *)

\* Handler h is at a save_message call of webhook() and takes its step
SavesTurn(h) == pc[h] \in {"save user", "save bot"} /\ pc'[h] # pc[h]

\* C13: in every step, whatever the interleaving of the handler instances,
\* the rows of the table stay as they are (same id, user id, role and
\* content, none removed); a row is added only by the save_message step of a
\* POST handler, one at a time, with an id greater than every id in the table
\* and the sender, role and text of that handler; the steps of GET /webhook,
\* get_last_messages, generate_bot_reply and send_message add none.
C13_AppendOnly ==
    [][/\ Len(messages') >= Len(messages)
       /\ SubSeq(messages', 1, Len(messages)) = messages
       /\ messages' # messages =>
             /\ Len(messages') = Len(messages) + 1
             /\ \A j \in 1..Len(messages) : messages[j].id < messages'[Len(messages')].id
             /\ call' = call
             /\ \E h \in Handlers :
                   /\ SavesTurn(h)
                   /\ messages'[Len(messages')].user_id = sender_id[h]
                   /\ messages'[Len(messages')].role = (IF pc[h] = "save user" THEN "user" ELSE "bot")
                   /\ messages'[Len(messages')].content =
                         (IF pc[h] = "save user" THEN user_text[h] ELSE bot_reply[h])
       /\ (\A h \in Handlers : ~SavesTurn(h)) => messages' = messages
      ]_vars

\* Two handlers have written the turns of two events of the same user in
\* turn, and a GET /webhook was answered meanwhile: four rows with the ids
\* 1 to 4, the two user turns first.
C13_Witness ==
    /\ Len(messages) = 4
    /\ \A i \in 1..4 : messages[i].id = i /\ messages[i].user_id = "U1"
    /\ messages[1].role = "user" /\ messages[2].role = "user"
    /\ messages[1].content # messages[2].content
    /\ messages[3].role = "bot" /\ messages[4].role = "bot"
    /\ call.fn = "verify"

-----------------------------------------------------------------------------
(* C14: the order of the steps of a processed event *)

\* The calls of a processed event in the order the claim states; the prompt
\* is built between the second and the third
StepOrder ==
    <<"save_message", "get_last_messages", "generate_bot_reply", "save_message",
      "send_message">>

\* The number of calls made for the event when the handler is at a position
CallsMade ==
    [p \in {"save user", "history", "generate", "reply", "save bot", "send"} |->
        CASE p = "save user" -> 0
          [] p = "history" -> 1
          [] p \in {"generate", "reply"} -> 2
          [] p = "save bot" -> 3
          [] p = "send" -> 4]

\* C14: the calls made for an event are a prefix of: save the user turn,
\* fetch the history, (build the prompt,) generate, save the bot turn, send,
\* each made once and the handler standing right after the last one made;
\* the prompt in use was built from the fetched history and the text; when
\* send_message is about to be called or has been called, the bot turn of
\* the event is in the table, written after the user turn, and its content is
\* the text sent.
C14_FixedOrder ==
    \A h \in Handlers :
        LET st == steps[h] IN
        /\ Len(st) <= 5
        /\ \A k \in 1..Len(st) : st[k].op = StepOrder[k]
        /\ pc[h] \in DOMAIN CallsMade => Len(st) = CallsMade[pc[h]]
        /\ pc[h] = "for" => Len(st) \in {0, 5}
        /\ pc[h] \in {"generate", "reply", "save bot", "send"} =>
              prompt[h] = "\nBan la chatbot ban hang.\nDay la lich su 5 tin nhan gan nhat:\n"
                          \o history[h] \o "\n\nDay la tin nhan moi nhat cua khach:\n"
                          \o user_text[h] \o "\n\nTra loi khach chuyen nghiep, ngan gon.\n"
        /\ (pc[h] = "send" \/ Completed(h)) =>
              /\ st[1].id < st[4].id
              /\ RowWithId(st[4].id) = {[id |-> st[4].id, user_id |-> sender_id[h],
                                          role |-> "bot", content |-> bot_reply[h]]}
        /\ Completed(h) => st[5].text = bot_reply[h] /\ st[5].recipient_id = sender_id[h]

\* The fourth event of a request, the first one that is processed, has gone
\* through its five calls and the generated text was saved and sent.
C14_Witness ==
    \E h \in Handlers :
        /\ Completed(h)
        /\ outcomes[h] = <<"skipped", "skipped", "skipped", "sent">>
        /\ [k \in 1..5 |-> steps[h][k].op] = StepOrder
        /\ steps[h][5].text = "Da co"
        /\ messages[2] = [id |-> 2, user_id |-> "U1", role |-> "bot", content |-> "Da co"]

-----------------------------------------------------------------------------
(* C15: a storage failure between the two writes of an event *)

\* The number of turns of user u with the role r
Count(u, r) ==
    Cardinality({i \in 1..Len(messages) : messages[i].user_id = u /\ messages[i].role = r})

\* The events of user u in flight between their user turn and their bot turn
InFlight(u) ==
    Cardinality({h \in Handlers : /\ pc[h] \in {"history", "generate", "reply", "save bot"}
                                  /\ sender_id[h] = u})

\* The user turns of u that have no bot turn and no event in flight
Dangling(u) == Count(u, "user") - Count(u, "bot") - InFlight(u)

\* The storage fails at the history read or the bot-turn write of handler h
FailsAfterUserTurn(h) ==
    /\ pc[h] \in {"history", "save bot"}
    /\ pc'[h] = "idle"
    /\ outcomes'[h] = Append(outcomes[h], "storage error")

\* C15: when the storage fails at the history read or at the bot-turn write
\* of an event, the table is left as it is, with the user turn of the event in
\* it; the handler has made no second save_message and no send_message for
\* the event and makes none later (the request ends with the error); and the
\* number of user turns of a user that have neither a bot turn nor an event
\* in flight grows only in such a step, by one, and never shrinks.
C15_PartialWrite ==
    [][/\ \A h \in Handlers : (pc[h] \in {"history", "save bot"} /\ pc'[h] = "idle") =>
             /\ FailsAfterUserTurn(h)
             /\ messages' = messages /\ sqlite_sequence' = sqlite_sequence
             /\ RowWithId(steps[h][1].id) = {[id |-> steps[h][1].id, user_id |-> sender_id[h],
                                               role |-> "user", content |-> user_text[h]]}
             /\ steps'[h] = steps[h]
             /\ Cardinality({k \in 1..Len(steps[h]) : steps[h][k].op = "save_message"}) = 1
             /\ SendCalls(steps[h]) = 0
             /\ response'[h] = Error500
       /\ \A u \in Users :
             LET before == Dangling(u)
                 after == Dangling(u)'
             IN \/ after = before
                \/ /\ after = before + 1
                   /\ \E h \in Handlers : FailsAfterUserTurn(h) /\ sender_id[h] = u
       /\ \A h \in Handlers :
             FailsAfterUserTurn(h) => Dangling(sender_id[h])' = Dangling(sender_id[h]) + 1
      ]_vars

\* The storage failed at the bot-turn write of one event and at the history
\* read of another: the table holds their two user turns and no bot turn, and
\* no event is in flight.
C15_Witness ==
    /\ \A h \in Handlers : pc[h] = "idle" /\ response[h] = Error500
    /\ Len(steps["h1"]) = 1 /\ Len(steps["h2"]) = 3
    /\ Len(messages) = 2
    /\ \A i \in 1..2 : messages[i].role = "user" /\ messages[i].user_id = "U1"
    /\ Dangling("U1") = 2

-----------------------------------------------------------------------------
(* C16: a request is handled to completion *)

\* The steps of handler h after the request was received: each is a blocking
\* call or a statement of webhook(), which is taken once the call before it
\* has returned
Proceed(h) ==
    \/ NextEvent(h)
    \/ SaveUser(h)
    \/ GetLastMessages(h)
    \/ GenerateContent(h)
    \/ BotReply(h)
    \/ SaveBot(h)
    \/ Send(h)

\* The handler instances run, and every call they make returns or raises
SpecLive == Spec /\ \A h \in Handlers : WF_vars(Proceed(h))

\* C16: while a request is handled, the events before the one in hand have
\* been handled in their extracted order, one outcome each, and no response
\* has been given; an answered request has an outcome, skipped or sent, for
\* every extracted event.
C16_HandledToCompletion ==
    \A h \in Handlers :
        /\ pc[h] # "idle" =>
              /\ response[h] = NoResponse
              /\ Len(outcomes[h]) = idx[h] - 1
        /\ \A i \in 1..Len(outcomes[h]) :
              /\ outcomes[h][i] = "sent" => Processable(events[h][i])
              /\ outcomes[h][i] = "skipped" => ~Processable(events[h][i])
        /\ Answered(h) =>
              /\ Len(outcomes[h]) = Len(events[h])
              /\ \A i \in 1..Len(outcomes[h]) : outcomes[h][i] \in {"skipped", "sent"}

\* The termination part of C16: every request received is answered.
C16_Answered ==
    \A h \in Handlers : (pc[h] # "idle") ~> Answered(h)

-----------------------------------------------------------------------------
(* C17: the history block and the user turn of the event *)

\* The string s ends with the string t
EndsWith(s, t) == Len(s) >= Len(t) /\ SubSeq(s, Len(s) - Len(t) + 1, Len(s)) = t

\* The prompt with the history block b and the newest message t
PromptOf(b, t) ==
    "\nBan la chatbot ban hang.\nDay la lich su 5 tin nhan gan nhat:\n" \o b
    \o "\n\nDay la tin nhan moi nhat cua khach:\n" \o t
    \o "\n\nTra loi khach chuyen nghiep, ngan gon.\n"

\* C17: once the history of an event has been fetched, its last line is the
\* user turn of that event, and the prompt holds the new user text in the
\* history block and as the newest message.
C17_OwnTurnNewest ==
    \A h \in Handlers :
        pc[h] \in {"generate", "reply", "save bot", "send"} =>
            /\ EndsWith(history[h], "user: " \o user_text[h] \o "\n")
            /\ prompt[h] = PromptOf(history[h], user_text[h])

\* C17 as amended: the history fetched for an event is the block of the (at
\* most five) newest turns the sender has in the table when it is read; the
\* user turn of the event is one of the sender's turns by then, followed
\* exactly by the turns of that user written since by other handler
\* instances, so that it is the last line of the block when there is none;
\* the prompt is built from that block and has the new user text as the
\* newest message.
C17_OwnTurnThenLater ==
    [][\A h \in Handlers :
         (pc[h] = "history" /\ pc'[h] = "generate") =>
            LET ts == TurnsOf(sender_id[h])
                n == Min(Len(ts), 5)
                own == [id |-> steps[h][1].id, user_id |-> sender_id[h],
                        role |-> "user", content |-> user_text[h]]
                later == {i \in 1..Len(ts) : ts[i].id > own.id}
            IN /\ history'[h] = Lines(ts, Len(ts) - n + 1)
               /\ Len(ts) > Cardinality(later)
               /\ ts[Len(ts) - Cardinality(later)] = own
               /\ later = {} => EndsWith(history'[h], "user: " \o user_text[h] \o "\n")
               /\ Cardinality(later) < n =>
                     EndsWith(history'[h],
                              "user: " \o user_text[h] \o "\n"
                              \o Lines(ts, Len(ts) - Cardinality(later) + 1))
               /\ prompt'[h] = PromptOf(history'[h], user_text[h])
      ]_vars

\* Two requests of the same user ran between the user-turn write and the
\* history read: the block fetched for the event with the text "hi" ends with
\* the user turn of the other event.
C17_Witness ==
    \E h \in Handlers :
        /\ pc[h] = "generate"
        /\ sender_id[h] = "U1" /\ user_text[h] = "hi"
        /\ history[h] = "user: hi\nuser: Commands: buy\n"

-----------------------------------------------------------------------------
(* C18: bot turns and user turns of a user *)

\* From row k on, with bal more user turns than bot turns of user u before
\* it, no prefix of the table has more bot turns than user turns of u
RECURSIVE NeverAhead(_, _, _)
NeverAhead(u, k, bal) ==
    IF k > Len(messages) THEN TRUE
    ELSE LET r == messages[k]
             b == IF r.user_id # u THEN bal
                  ELSE IF r.role = "user" THEN bal + 1
                  ELSE IF r.role = "bot" THEN bal - 1
                  ELSE bal
         IN b >= 0 /\ NeverAhead(u, k + 1, b)

\* No request is in progress, every request was served by a handler instance
\* of its own, and none ended with an error
AllCompleted ==
    /\ \A h \in Handlers : pc[h] = "idle" /\ response[h] # Error500
    /\ served = Cardinality({h \in Handlers : response[h] # NoResponse})

\* C18: in every reachable state, whatever the interleaving and the failures, each
\* prefix of the table in id order has at most as many bot turns as user
\* turns of each user; the user turns of a user in excess of its bot turns and
\* of its events in flight change in number only when the storage fails
\* between the two writes of an event, so that without such a failure, and
\* with no request in progress, every user has as many bot turns as user turns.
C18_BotTurnsMatched ==
    /\ [](\A u \in Users :
            /\ NeverAhead(u, 1, 0)
            /\ Dangling(u) >= 0
            /\ AllCompleted => Count(u, "user") = Count(u, "bot"))
    /\ [][(\A h \in Handlers : ~FailsAfterUserTurn(h)) =>
              \A u \in Users : Dangling(u)' = Dangling(u)]_vars

\* Two requests handled in parallel have completed: the two user turns of U1
\* come first, then its bot turns, then the turns of U2, and each user has as
\* many bot turns as user turns.
C18_Witness ==
    /\ AllCompleted /\ served = 2
    /\ Len(messages) = 6
    /\ messages[1].role = "user" /\ messages[2].role = "user"
    /\ messages[3].role = "bot" /\ messages[4].role = "bot"
    /\ \A i \in 1..4 : messages[i].user_id = "U1"
    /\ Count("U1", "user") = 2 /\ Count("U1", "bot") = 2
    /\ Count("U2", "user") = 1 /\ Count("U2", "bot") = 1


=============================================================================
